---- MODULE Spec2Model ----
(***************************************************************************)
(* Analytics engine of the trading journal (src/lib/analytics):           *)
(* calculateStats, calculateSessionStats, calculateSetupStats,             *)
(* calculateMonthlyPerformance, calculateEquityCurve and generateInsights, *)
(* applied to a trade collection; and the account and trade operations of  *)
(* AppProvider (src/contexts/AppContext.tsx) over the IndexedDB stores.    *)
(*                                                                         *)
(* Numbers.  Amounts and r-multiples are integers (currency units and      *)
(* whole R), so every sum is exact.  A quotient is a reduced fraction      *)
(* [n, d] with d > 0; JavaScript's Infinity is 1/0, -Infinity is -1/0 and  *)
(* NaN is 0/0, so a division by zero is visible in the result.             *)
(* Dates are timestamps counted in whole days, day 1 being 1 January 2024. *)
(* A text that is compared or formatted is the sequence of its characters. *)
(*                                                                         *)
(* Specifications.  Those of the analytics share the actions; each draws   *)
(* the collection from trades that vary in the fields its claims are about:*)
(*   Spec          date, result, r-multiple                                *)
(*   SpecAmounts   result, risk amount, reward amount                      *)
(*   SpecEquity    date, result, risk and reward amount, starting balance  *)
(*   SpecSessions  result, session                                         *)
(*   SpecOrder     date, result, session and setup                         *)
(*   SpecInsights  result, emotion, risk percent                           *)
(*   SpecMonths    date across months and years, result                    *)
(*   SpecSetups    result, r-multiple, setup tag as free text              *)
(*   SpecRatios    result, risk amount, emotion, risk percent              *)
(*   SpecLong      result and date, in collections of 5 to 11 trades       *)
(*   SpecEmotions  result, emotion                                         *)
(*   SpecCallouts  result, session, setup tag                              *)
(* Those of the provider start from the empty stores:                      *)
(*   SpecApp          each operation is called when the last has completed *)
(*   SpecAppInFlight  moreover addTrade is called while another addTrade   *)
(*                    is in flight                                         *)
(* In these db holds the stores, ui the rendered state, ops the calls made *)
(* since the last moment none was in flight, and drawn the ids given out.  *)
(***************************************************************************)
EXTENDS Integers, Sequences, FiniteSets, TLC

VARIABLES trades, startingBalance, out, db, ui, ops, drawn

vars == <<trades, startingBalance, out, db, ui, ops, drawn>>

\* the provider's stores and state, and the input and output of the analytics
appVars == <<db, ui, ops, drawn>>
analyticsVars == <<trades, startingBalance, out>>

----------------------------------------------------------------------------
(* Bounds of the checked inputs *)

MaxTrades == 3

Dates == {1, 2}
RMultiples == {-1, 0, 2}
RiskAmounts == {1, 2}
RewardAmounts == {0, 2}
Balances == {0, 10}
OrderDates == {1, 2, 3}

----------------------------------------------------------------------------
(* Numbers *)

Abs(x) == IF x < 0 THEN -x ELSE x

Max(a, b) == IF a >= b THEN a ELSE b

RECURSIVE GCD(_, _)
GCD(a, b) == IF b = 0 THEN a ELSE GCD(b, a % b)

Zero == [n |-> 0, d |-> 1]

Infinity == [n |-> 1, d |-> 0]

NaN == [n |-> 0, d |-> 0]

\* a / b of two integers, as JavaScript's number division
Div(a, b) ==
    IF b = 0
    THEN (IF a > 0 THEN Infinity
          ELSE IF a < 0 THEN [n |-> -1, d |-> 0]
          ELSE NaN)
    ELSE LET g == GCD(Abs(a), Abs(b))
             s == IF b < 0 THEN -1 ELSE 1
         IN [n |-> s * (a \div g), d |-> s * (b \div g)]

\* x < y on quotients; false whenever either side is NaN
Less(x, y) == x # NaN /\ y # NaN /\ x.n * y.d < y.n * x.d

\* x >= y on quotients; false whenever either side is NaN
\* mutant: the threshold itself does not count
GreaterStrictly(x, y) == x # NaN /\ y # NaN /\ x.n * y.d > y.n * x.d

GreaterEq(x, y) == x # NaN /\ y # NaN /\ x.n * y.d >= y.n * x.d

\* the integer k as a quotient
Whole(k) == [n |-> k, d |-> 1]

\* x + y of two finite quotients
Plus(x, y) == Div(x.n * y.d + y.n * x.d, x.d * y.d)

\* x.toFixed(digits): the decimal text of x rounded to digits places (half away
\* from zero), kept as the number of units of the last place; "NaN" and
\* "Infinity" stay what they are
toFixed(x, digits) ==
    IF x.d = 0 THEN [text |-> x]
    ELSE LET scale == IF digits = 1 THEN 10 ELSE 100
             units == (2 * Abs(x.n) * scale + x.d) \div (2 * x.d)
         IN [digits |-> digits, units |-> IF x.n < 0 THEN -units ELSE units]

RECURSIVE SumSeq(_)
SumSeq(s) == IF s = <<>> THEN 0 ELSE SumSeq(SubSeq(s, 1, Len(s) - 1)) + s[Len(s)]

----------------------------------------------------------------------------
(* Trades *)

Results == {"Win", "Loss", "BE"}

\* mutant: the NY session is missing from the list
sessionsWithoutNY == <<"Asian", "London", "Pre-NY", "Post-NY">>

sessions == <<"Asian", "London", "NY", "Pre-NY", "Post-NY">>

Emotions == {"Calm", "Fear", "Greed", "Impulsive", "Overconfident", "Disciplined"}

Trade(date, result, rMultiple, riskAmount, rewardAmount, session, setupTag) ==
    [date |-> date, result |-> result, rMultiple |-> rMultiple,
     riskPercent |-> 1, riskAmount |-> riskAmount, rewardAmount |-> rewardAmount,
     session |-> session, setupTag |-> setupTag, emotion |-> "Calm"]

IsWin(t) == t.result = "Win"

\* mutant: every trade that is not a win counts as a loss
IsLossOrBreakeven(t) == t.result # "Win"

IsLoss(t) == t.result = "Loss"

\* mutant: every trade that is not a loss counts as a win
WinsNotLoss(ts) == LET NotLoss(t) == t.result # "Loss" IN SelectSeq(ts, NotLoss)

Wins(ts) == SelectSeq(ts, IsWin)

Losses(ts) == SelectSeq(ts, IsLoss)

RMultiplesOf(ts) == [i \in 1..Len(ts) |-> ts[i].rMultiple]

\* mutant: the sort is left out
SortByDateNone(ts) == ts

\* [...trades].sort((a, b) => time(a.date) - time(b.date)): a stable sort of a copy
RECURSIVE SortByDate(_)
SortByDate(ts) ==
    IF ts = <<>> THEN <<>>
    ELSE LET rest == SortByDate(SubSeq(ts, 1, Len(ts) - 1))
             t == ts[Len(ts)]
             k == Cardinality({i \in 1..Len(rest) : rest[i].date <= t.date})
         IN SubSeq(rest, 1, k) \o <<t>> \o SubSeq(rest, k + 1, Len(rest))

----------------------------------------------------------------------------
(* Category breakdowns *)

\* mutant: the filter keeps every entry
HasTradesAlways(s) == TRUE

HasTrades(s) == s.trades > 0

calculateSessionStats(ts) ==
    LET Entry(session) ==
            LET InSession(t) == t.session = session
                sessionTrades == SelectSeq(ts, InSession)
                wins == Wins(sessionTrades)
                totalR == SumSeq(RMultiplesOf(sessionTrades))
            IN [session |-> session,
                trades |-> Len(sessionTrades),
                winRate |-> IF Len(sessionTrades) > 0
                            THEN Div(Len(wins) * 100, Len(sessionTrades)) ELSE Zero,
                avgR |-> IF Len(sessionTrades) > 0
                         THEN Div(totalR, Len(sessionTrades)) ELSE Zero,
                totalR |-> totalR]
    IN SelectSeq([i \in 1..Len(sessions) |-> Entry(sessions[i])], HasTrades)

\* mutant: repeated values are kept
DistinctKeepingAll(s) == s

\* [...new Set(tags)]: the distinct values in order of first appearance
RECURSIVE Distinct(_)
Distinct(s) ==
    IF s = <<>> THEN <<>>
    ELSE LET front == Distinct(SubSeq(s, 1, Len(s) - 1))
             x == s[Len(s)]
         IN IF \E i \in 1..Len(front) : front[i] = x THEN front ELSE Append(front, x)

calculateSetupStats(ts) ==
    LET setups == Distinct([i \in 1..Len(ts) |-> ts[i].setupTag])
        Entry(setup) ==
            LET WithSetup(t) == t.setupTag = setup
                setupTrades == SelectSeq(ts, WithSetup)
                wins == Wins(setupTrades)
                totalR == SumSeq(RMultiplesOf(setupTrades))
            IN [setup |-> setup,
                trades |-> Len(setupTrades),
                winRate |-> IF Len(setupTrades) > 0
                            THEN Div(Len(wins) * 100, Len(setupTrades)) ELSE Zero,
                avgR |-> IF Len(setupTrades) > 0
                         THEN Div(totalR, Len(setupTrades)) ELSE Zero,
                totalR |-> totalR]
    IN SelectSeq([i \in 1..Len(setups) |-> Entry(setups[i])], HasTrades)

----------------------------------------------------------------------------
(* calculateStats *)

\* mutant: a breakeven trade leaves the running streaks as they are
StreaksThroughBreakeven(sortedTrades) ==
    LET walk[i \in 0..Len(sortedTrades)] ==
            IF i = 0
            THEN [currentWinStreak |-> 0, currentLossStreak |-> 0,
                  maxConsecutiveWins |-> 0, maxConsecutiveLosses |-> 0]
            ELSE LET w == walk[i - 1]
                     trade == sortedTrades[i]
                 IN IF trade.result = "Win"
                    THEN [currentWinStreak |-> w.currentWinStreak + 1,
                          currentLossStreak |-> 0,
                          maxConsecutiveWins |->
                              Max(w.maxConsecutiveWins, w.currentWinStreak + 1),
                          maxConsecutiveLosses |-> w.maxConsecutiveLosses]
                    ELSE IF trade.result = "Loss"
                    THEN [currentWinStreak |-> 0,
                          currentLossStreak |-> w.currentLossStreak + 1,
                          maxConsecutiveWins |-> w.maxConsecutiveWins,
                          maxConsecutiveLosses |->
                              Max(w.maxConsecutiveLosses, w.currentLossStreak + 1)]
                    ELSE w
    IN walk[Len(sortedTrades)]

\* the streak loop: the running and the maximal win and loss streaks
Streaks(sortedTrades) ==
    LET walk[i \in 0..Len(sortedTrades)] ==
            IF i = 0
            THEN [currentWinStreak |-> 0, currentLossStreak |-> 0,
                  maxConsecutiveWins |-> 0, maxConsecutiveLosses |-> 0]
            ELSE LET w == walk[i - 1]
                     trade == sortedTrades[i]
                 IN IF trade.result = "Win"
                    THEN [currentWinStreak |-> w.currentWinStreak + 1,
                          currentLossStreak |-> 0,
                          maxConsecutiveWins |->
                              Max(w.maxConsecutiveWins, w.currentWinStreak + 1),
                          maxConsecutiveLosses |-> w.maxConsecutiveLosses]
                    ELSE IF trade.result = "Loss"
                    THEN [currentWinStreak |-> 0,
                          currentLossStreak |-> w.currentLossStreak + 1,
                          maxConsecutiveWins |-> w.maxConsecutiveWins,
                          maxConsecutiveLosses |->
                              Max(w.maxConsecutiveLosses, w.currentLossStreak + 1)]
                    ELSE [currentWinStreak |-> 0, currentLossStreak |-> 0,
                          maxConsecutiveWins |-> w.maxConsecutiveWins,
                          maxConsecutiveLosses |-> w.maxConsecutiveLosses]
    IN walk[Len(sortedTrades)]

\* mutant: the peak starts at the balance after the first trade instead of at 0
DrawdownFromFirstTrade(sortedTrades) ==
    LET walk[i \in 0..Len(sortedTrades)] ==
            IF i = 0
            THEN [peak |-> 0, maxDrawdown |-> 0, runningBalance |-> 0]
            ELSE LET w == walk[i - 1]
                     runningBalance == w.runningBalance + sortedTrades[i].rMultiple
                     peak == IF i = 1 THEN runningBalance ELSE Max(w.peak, runningBalance)
                     drawdown == peak - runningBalance
                 IN [peak |-> peak,
                     maxDrawdown |-> Max(w.maxDrawdown, drawdown),
                     runningBalance |-> runningBalance]
    IN walk[Len(sortedTrades)]

\* mutant: maxDrawdown keeps the last drawdown instead of the largest
DrawdownLast(sortedTrades) ==
    LET walk[i \in 0..Len(sortedTrades)] ==
            IF i = 0
            THEN [peak |-> 0, maxDrawdown |-> 0, runningBalance |-> 0]
            ELSE LET w == walk[i - 1]
                     runningBalance == w.runningBalance + sortedTrades[i].rMultiple
                     peak == Max(w.peak, runningBalance)
                     drawdown == peak - runningBalance
                 IN [peak |-> peak,
                     maxDrawdown |-> drawdown,
                     runningBalance |-> runningBalance]
    IN walk[Len(sortedTrades)]

\* the drawdown loop: peak, maxDrawdown and runningBalance all start at 0
Drawdown(sortedTrades) ==
    LET walk[i \in 0..Len(sortedTrades)] ==
            IF i = 0
            THEN [peak |-> 0, maxDrawdown |-> 0, runningBalance |-> 0]
            ELSE LET w == walk[i - 1]
                     runningBalance == w.runningBalance + sortedTrades[i].rMultiple
                     peak == Max(w.peak, runningBalance)
                     drawdown == peak - runningBalance
                 IN [peak |-> peak,
                     maxDrawdown |-> Max(w.maxDrawdown, drawdown),
                     runningBalance |-> runningBalance]
    IN walk[Len(sortedTrades)]

\* entries.reduce((best, curr) => curr.avgR > best.avgR ? curr : best, entries[0])
BestOf(entries) ==
    LET pick[i \in 1..Len(entries)] ==
            IF i = 1 THEN entries[1]
            ELSE IF Less(pick[i - 1].avgR, entries[i].avgR) THEN entries[i] ELSE pick[i - 1]
    IN pick[Len(entries)]

\* entries.reduce((worst, curr) => curr.avgR < worst.avgR ? curr : worst, entries[0])
WorstOf(entries) ==
    LET pick[i \in 1..Len(entries)] ==
            IF i = 1 THEN entries[1]
            ELSE IF Less(entries[i].avgR, pick[i - 1].avgR) THEN entries[i] ELSE pick[i - 1]
    IN pick[Len(entries)]

\* name || 'N/A': the empty string is falsy
OrNA(name) == IF name = "" THEN "N/A" ELSE name

\* mutant: the ratio is taken whatever the loss total
ProfitFactorUnguarded(totalProfit, totalLoss) == Div(totalProfit, totalLoss)

\* mutant: without losses the factor is always infinite
ProfitFactorInfiniteWithoutLoss(totalProfit, totalLoss) ==
    IF totalLoss > 0 THEN Div(totalProfit, totalLoss) ELSE Infinity

\* mutant: the ratio is inverted
ProfitFactorInverted(totalProfit, totalLoss) ==
    IF totalLoss > 0 THEN Div(totalLoss, totalProfit)
    ELSE IF totalProfit > 0 THEN Infinity ELSE Zero

ProfitFactor(totalProfit, totalLoss) ==
    IF totalLoss > 0 THEN Div(totalProfit, totalLoss)
    ELSE IF totalProfit > 0 THEN Infinity ELSE Zero

\* the record returned for an empty collection
EmptyStats ==
    [totalTrades |-> 0, winRate |-> Zero, avgR |-> Zero, profitFactor |-> Zero,
     expectancy |-> Zero, maxConsecutiveWins |-> 0, maxConsecutiveLosses |-> 0,
     maxDrawdown |-> 0, totalProfit |-> 0, totalLoss |-> 0,
     bestSession |-> "N/A", worstSession |-> "N/A",
     bestSetup |-> "N/A", worstSetup |-> "N/A"]

\* the computation after the empty-collection return
NonEmptyStats(ts) ==
    LET wins == Wins(ts)
        losses == Losses(ts)
        totalProfit == SumSeq([i \in 1..Len(wins) |-> wins[i].rewardAmount])
        totalLoss == Abs(SumSeq([i \in 1..Len(losses) |-> losses[i].riskAmount]))
        totalR == SumSeq(RMultiplesOf(ts))
        avgR == Div(totalR, Len(ts))
        sortedTrades == SortByDate(ts)
        streaks == Streaks(sortedTrades)
        sessionStats == calculateSessionStats(ts)
        setupStats == calculateSetupStats(ts)
    IN [totalTrades |-> Len(ts),
        winRate |-> Div(Len(wins) * 100, Len(ts)),
        avgR |-> avgR,
        profitFactor |-> ProfitFactor(totalProfit, totalLoss),
        expectancy |-> avgR,
        maxConsecutiveWins |-> streaks.maxConsecutiveWins,
        maxConsecutiveLosses |-> streaks.maxConsecutiveLosses,
        maxDrawdown |-> Drawdown(sortedTrades).maxDrawdown,
        totalProfit |-> totalProfit,
        totalLoss |-> totalLoss,
        bestSession |-> IF sessionStats = <<>> THEN "N/A"
                        ELSE OrNA(BestOf(sessionStats).session),
        worstSession |-> IF sessionStats = <<>> THEN "N/A"
                         ELSE OrNA(WorstOf(sessionStats).session),
        bestSetup |-> IF Len(setupStats) > 0
                      THEN OrNA(BestOf(setupStats).setup) ELSE "N/A",
        worstSetup |-> IF Len(setupStats) > 0
                       THEN OrNA(WorstOf(setupStats).setup) ELSE "N/A"]

\* mutant: the return for an empty collection is left out
calculateStatsUnguarded(ts) == NonEmptyStats(ts)

calculateStats(ts) == IF Len(ts) = 0 THEN EmptyStats ELSE NonEmptyStats(ts)

----------------------------------------------------------------------------
(* calculateEquityCurve *)

\* new Date(date).toLocaleDateString(): the text of the calendar day
toLocaleDateString(date) == ToString(date)

\* the balance change of one trade in the curve loop
CurveStep(trade) ==
    trade.rewardAmount - (IF trade.result = "Loss" THEN trade.riskAmount ELSE 0)

calculateEquityCurve(ts, balance0) ==
    LET sortedTrades == SortByDate(ts)
        runningBalance[i \in 0..Len(sortedTrades)] ==
            IF i = 0 THEN balance0
            ELSE runningBalance[i - 1] + CurveStep(sortedTrades[i])
    IN <<[date |-> "Start", equity |-> 0, balance |-> balance0]>> \o
       [i \in 1..Len(sortedTrades) |->
            [date |-> toLocaleDateString(sortedTrades[i].date),
             equity |-> runningBalance[i] - balance0,
             balance |-> runningBalance[i]]]

----------------------------------------------------------------------------
(* calculateMonthlyPerformance.  A date is a day number, day 1 being       *)
(* 1 January 2024 in the zone the program runs in.                         *)

IsLeapYear(year) == year % 4 = 0 /\ (year % 100 # 0 \/ year % 400 = 0)

DaysInYear(year) == IF IsLeapYear(year) THEN 366 ELSE 365

DaysInMonth(year, month) ==
    IF month = 1 THEN (IF IsLeapYear(year) THEN 29 ELSE 28)
    ELSE IF month \in {3, 5, 8, 10} THEN 30 ELSE 31

\* the year and the day within it (from 1) of day number `day', counted from
\* the first day of `year'
RECURSIVE YearAndDay(_, _)
YearAndDay(year, day) ==
    IF day <= DaysInYear(year) THEN [year |-> year, day |-> day]
    ELSE YearAndDay(year + 1, day - DaysInYear(year))

\* the month (from 0) of the day `day' (from 1) counted from the first day of
\* month `month' of `year'
RECURSIVE MonthOfDay(_, _, _)
MonthOfDay(year, month, day) ==
    IF day <= DaysInMonth(year, month) THEN month
    ELSE MonthOfDay(year, month + 1, day - DaysInMonth(year, month))

getFullYear(date) == YearAndDay(2024, date).year

\* January is month 0
getMonth(date) == MonthOfDay(getFullYear(date), 0, YearAndDay(2024, date).day)

\* String(k): the decimal digits of a natural number
RECURSIVE String(_)
String(k) ==
    LET digit == <<"0", "1", "2", "3", "4", "5", "6", "7", "8", "9">>[(k % 10) + 1]
    IN IF k < 10 THEN <<digit>> ELSE Append(String(k \div 10), digit)

\* text.padStart(length, '0')
RECURSIVE padStart(_, _)
padStart(text, length) ==
    IF Len(text) >= length THEN text ELSE padStart(<<"0">> \o text, length)

\* `${date.getFullYear()}-${String(date.getMonth() + 1).padStart(2, '0')}`,
\* a text being the sequence of its characters
monthKey(date) ==
    String(getFullYear(date)) \o <<"-">> \o padStart(String(getMonth(date) + 1), 2)

\* the place of a character in the collation order: the hyphen before the digits
CharRank(c) ==
    LET order == <<"-", "0", "1", "2", "3", "4", "5", "6", "7", "8", "9">>
    IN CHOOSE i \in 1..Len(order) : order[i] = c

\* a.localeCompare(b) on texts of hyphens and digits: negative, zero or positive
RECURSIVE localeCompare(_, _)
localeCompare(a, b) ==
    IF a = <<>> THEN (IF b = <<>> THEN 0 ELSE -1)
    ELSE IF b = <<>> THEN 1
    ELSE IF CharRank(a[1]) < CharRank(b[1]) THEN -1
    ELSE IF CharRank(a[1]) > CharRank(b[1]) THEN 1
    ELSE localeCompare(Tail(a), Tail(b))

\* mutant: the month keys stay in the order the trades brought them
SortByKeyNone(keys) == keys

\* entries.sort(([a], [b]) => a.localeCompare(b)), on the keys: stable
RECURSIVE SortByKey(_)
SortByKey(keys) ==
    IF keys = <<>> THEN <<>>
    ELSE LET rest == SortByKey(SubSeq(keys, 1, Len(keys) - 1))
             key == keys[Len(keys)]
             k == Cardinality({i \in 1..Len(rest) : localeCompare(rest[i], key) <= 0})
         IN SubSeq(rest, 1, k) \o <<key>> \o SubSeq(rest, k + 1, Len(rest))

calculateMonthlyPerformance(ts) ==
    LET \* Object.entries(monthlyData): the keys in the order they were first set
        months == Distinct([i \in 1..Len(ts) |-> monthKey(ts[i].date)])
        Record(month) ==
            LET InMonth(t) == monthKey(t.date) = month
                data == SelectSeq(ts, InMonth)
            IN [month |-> month,
                profit |-> SumSeq(RMultiplesOf(data)),
                trades |-> Len(data),
                winRate |-> Div(Len(Wins(data)) * 100, Len(data))]
        sorted == SortByKey(months)
    IN [i \in 1..Len(sorted) |-> Record(sorted[i])]

----------------------------------------------------------------------------
(* generateInsights *)

\* mutant: the copy keeps the order of the collection
SortByDateDescendingNone(ts) == ts

\* [...trades].sort((a, b) => time(b.date) - time(a.date)): stable, latest first
RECURSIVE SortByDateDescending(_)
SortByDateDescending(ts) ==
    IF ts = <<>> THEN <<>>
    ELSE LET rest == SortByDateDescending(SubSeq(ts, 1, Len(ts) - 1))
             t == ts[Len(ts)]
             k == Cardinality({i \in 1..Len(rest) : rest[i].date >= t.date})
         IN SubSeq(rest, 1, k) \o <<t>> \o SubSeq(rest, k + 1, Len(rest))

\* mutant: the first entry is taken whatever its name
FindFirst(entries, field, name) == IF entries = <<>> THEN <<>> ELSE <<entries[1]>>

\* array.find(s => s[field] === name): the first such entry, or none
Find(entries, field, name) ==
    LET hits == {i \in 1..Len(entries) : entries[i][field] = name}
    IN IF hits = {} THEN <<>>
       ELSE <<entries[CHOOSE i \in hits : \A j \in hits : i <= j]>>

\* emotionTrades[emotion]: the bucket the reduce builds, or none
EmotionBucket(ts, emotion) ==
    LET WithEmotion(t) == t.emotion = emotion
        bucket == SelectSeq(ts, WithEmotion)
    IN IF bucket = <<>> THEN <<>>
       ELSE <<[count |-> Len(bucket),
               wins |-> Len(Wins(bucket)),
               totalR |-> SumSeq(RMultiplesOf(bucket))]>>

\* mutant: the two buckets are merged
OrElseMerged(a, b) ==
    IF a = <<>> THEN b
    ELSE IF b = <<>> THEN a
    ELSE <<[count |-> a[1].count + b[1].count,
            wins |-> a[1].wins + b[1].wins,
            totalR |-> a[1].totalR + b[1].totalR]>>

\* a || b on two buckets
OrElse(a, b) == IF a # <<>> THEN a ELSE b

OnboardingInsight == [rule |-> "onboarding"]

\* the rules after the empty-collection return, in source order; each gives the
\* strings it pushes (none or one), a string being its rule and the values set
\* into its text
\* the number of trades from which a low win rate is reported
ConcernTrades == 10

\* the number of latest trades the consecutive-loss rule looks at
RecentTrades == 5

\* mutant: the emotion comparison is pushed first
PushedEmotionFirst(best, worst, setup, risk, losses, rate, factor, emotion) ==
    emotion \o best \o worst \o setup \o risk \o losses \o rate \o factor

\* insights after the pushes of the rules, each rule having pushed nothing or
\* one insight, in the order the rules stand in the function
Pushed(best, worst, setup, risk, losses, rate, factor, emotion) ==
    best \o worst \o setup \o risk \o losses \o rate \o factor \o emotion

InsightRules(ts, stats) ==
    LET bestSession ==
            IF stats.bestSession # "N/A"
            THEN LET best == Find(calculateSessionStats(ts), "session", stats.bestSession)
                 IN IF best # <<>> /\ best[1].trades >= 3
                    THEN <<[rule |-> "bestSession", session |-> stats.bestSession,
                            winRate |-> toFixed(best[1].winRate, 1),
                            avgR |-> toFixed(best[1].avgR, 2)]>>
                    ELSE <<>>
            ELSE <<>>
        worstSession ==
            IF stats.worstSession # "N/A"
            THEN LET worst == Find(calculateSessionStats(ts), "session", stats.worstSession)
                 IN IF worst # <<>> /\ worst[1].trades >= 3 /\ Less(worst[1].avgR, Zero)
                    THEN <<[rule |-> "worstSession", session |-> stats.worstSession,
                            avgR |-> toFixed(worst[1].avgR, 2)]>>
                    ELSE <<>>
            ELSE <<>>
        bestSetup ==
            IF stats.bestSetup # "N/A"
            THEN LET best == Find(calculateSetupStats(ts), "setup", stats.bestSetup)
                 IN IF best # <<>> /\ best[1].trades >= 3
                    THEN <<[rule |-> "bestSetup", setup |-> stats.bestSetup,
                            avgR |-> toFixed(best[1].avgR, 2),
                            trades |-> best[1].trades]>>
                    ELSE <<>>
            ELSE <<>>
        avgRisk == Div(SumSeq([i \in 1..Len(ts) |-> ts[i].riskPercent]), Len(ts))
        risk ==
            IF Less(Whole(2), avgRisk)
            THEN <<[rule |-> "risk", avgRisk |-> toFixed(avgRisk, 1)]>>
            ELSE <<>>
        consecutiveLosses ==
            IF stats.maxConsecutiveLosses >= 3
            THEN LET latest == SortByDateDescending(ts)
                     recentTrades ==
                         SubSeq(latest, 1, IF Len(latest) < RecentTrades
                                           THEN Len(latest) ELSE RecentTrades)
                     recentLosses == Len(Losses(recentTrades))
                 IN IF recentLosses >= 3
                    THEN <<[rule |-> "consecutiveLosses",
                            maxConsecutiveLosses |-> stats.maxConsecutiveLosses]>>
                    ELSE <<>>
            ELSE <<>>
        winRate ==
            IF GreaterEq(stats.winRate, Whole(60))
            THEN <<[rule |-> "winRateGreat", winRate |-> toFixed(stats.winRate, 1)]>>
            ELSE IF Less(stats.winRate, Whole(40)) /\ Len(ts) >= ConcernTrades
            THEN <<[rule |-> "winRateLow", winRate |-> toFixed(stats.winRate, 1)]>>
            ELSE <<>>
        profitFactor ==
            IF GreaterEq(stats.profitFactor, Whole(2))
            THEN <<[rule |-> "profitFactor", profitFactor |-> toFixed(stats.profitFactor, 2)]>>
            ELSE <<>>
        calmTrades == OrElse(EmotionBucket(ts, "Calm"), EmotionBucket(ts, "Disciplined"))
        impulsiveTrades == OrElse(EmotionBucket(ts, "Impulsive"), EmotionBucket(ts, "Greed"))
        emotion ==
            IF calmTrades # <<>> /\ impulsiveTrades # <<>>
            THEN LET calmAvgR == Div(calmTrades[1].totalR, calmTrades[1].count)
                     impulsiveAvgR == Div(impulsiveTrades[1].totalR, impulsiveTrades[1].count)
                 IN IF Less(Plus(impulsiveAvgR, [n |-> 1, d |-> 2]), calmAvgR)
                    THEN <<[rule |-> "emotion", calmAvgR |-> toFixed(calmAvgR, 2),
                            impulsiveAvgR |-> toFixed(impulsiveAvgR, 2)]>>
                    ELSE <<>>
            ELSE <<>>
    IN Pushed(bestSession, worstSession, bestSetup, risk, consecutiveLosses,
              winRate, profitFactor, emotion)

\* mutant: the rules run for an empty collection too
generateInsightsWithoutReturn(ts, stats) ==
    IF Len(ts) = 0 THEN <<OnboardingInsight>> \o InsightRules(ts, stats)
    ELSE InsightRules(ts, stats)

generateInsights(ts, stats) ==
    IF Len(ts) = 0 THEN <<OnboardingInsight>> ELSE InsightRules(ts, stats)

----------------------------------------------------------------------------
(* The trade collections the functions are applied to *)

\* the outcome, r-multiple and amounts the entry form derives for a result
FormTrade(date, result, session, setupTag) ==
    Trade(date, result,
          IF result = "Win" THEN 2 ELSE IF result = "Loss" THEN -1 ELSE 0,
          1,
          IF result = "Win" THEN 2 ELSE 0,
          session, setupTag)

\* date, result and r-multiple vary freely
WalkTrades ==
    {Trade(d, res, r, 1, IF res = "Win" THEN 2 ELSE 0, "London", "Breakout") :
        d \in Dates, res \in Results, r \in RMultiples}

\* result, risk amount and reward amount vary freely
AmountTrades ==
    {Trade(1, res, IF res = "Win" THEN 2 ELSE IF res = "Loss" THEN -1 ELSE 0,
           risk, reward, "London", "Breakout") :
        res \in Results, risk \in RiskAmounts \cup {0}, reward \in RewardAmounts}

\* date, result and reward amount vary freely, and the risk amount where the
\* curve reads it (a loss)
EquityTrades ==
    {Trade(d, res, IF res = "Win" THEN 2 ELSE IF res = "Loss" THEN -1 ELSE 0,
           IF res = "Loss" THEN risk ELSE 1, reward, "London", "Breakout") :
        d \in Dates, res \in Results, risk \in RiskAmounts, reward \in RewardAmounts}

\* the session varies over the enumeration and one value outside it
SessionTrades ==
    {FormTrade(1, res, session, "Breakout") :
        res \in Results,
        session \in {sessions[i] : i \in 1..Len(sessions)} \cup {"Sydney"}}

\* date, result and category vary together
OrderTrades ==
    {FormTrade(d, res, c[1], c[2]) :
        d \in OrderDates, res \in {"Win", "Loss"},
        c \in {<<"London", "Breakout">>, <<"NY", "Reversal">>}}

\* result, emotion and risk percent vary freely
InsightTrades ==
    {[FormTrade(1, res, "London", "Breakout") EXCEPT !.emotion = e, !.riskPercent = p] :
        res \in Results, e \in {"Calm", "Disciplined", "Impulsive"}, p \in {1, 3}}

\* statistics of some other collection, as a caller may pass them to
\* generateInsights: one that meets the thresholds of the rules, one that does not
ForeignStats ==
    {[totalTrades |-> 10, winRate |-> Whole(70), avgR |-> Whole(1),
      profitFactor |-> Infinity, expectancy |-> Whole(1),
      maxConsecutiveWins |-> 4, maxConsecutiveLosses |-> 3, maxDrawdown |-> 3,
      totalProfit |-> 20, totalLoss |-> 0,
      bestSession |-> "London", worstSession |-> "NY",
      bestSetup |-> "Breakout", worstSetup |-> "Reversal"],
     [totalTrades |-> 10, winRate |-> Whole(30), avgR |-> Whole(-1),
      profitFactor |-> [n |-> 1, d |-> 2], expectancy |-> Whole(-1),
      maxConsecutiveWins |-> 1, maxConsecutiveLosses |-> 2, maxDrawdown |-> 7,
      totalProfit |-> 3, totalLoss |-> 6,
      bestSession |-> "NY", worstSession |-> "London",
      bestSetup |-> "Reversal", worstSetup |-> "Breakout"]}

\* the statistics passed with a collection: its own or foreign ones
StatsArguments(ts) == {calculateStats(ts)} \cup ForeignStats

\* days on both sides of a month's end, in the same month of two years and
\* out of date order: 31 January 2024, 1 February 2024, 1 and 31 January 2025
MonthDates == {31, 32, 367, 397}

MonthTrades ==
    {FormTrade(d, res, "London", "Breakout") : d \in MonthDates, res \in Results}

\* the setup tag is free text: a listed tag, a tag outside the list and the
\* empty text; result and r-multiple vary freely
SetupTrades ==
    {Trade(1, res, r, 1, IF res = "Win" THEN 2 ELSE 0, "London", tag) :
        res \in Results, r \in {-1, 2}, tag \in {"Breakout", "Own idea", ""}}

\* trades that bring every divisor to zero and above: losses with and without
\* an amount at risk, and emotion and risk percent as the rules of
\* generateInsights need them
RatioTrades ==
    {[Trade(1, res, IF res = "Win" THEN 2 ELSE -1, risk,
            IF res = "Win" THEN 2 ELSE 0, "London", "Breakout")
        EXCEPT !.emotion = e, !.riskPercent = p] :
        res \in {"Win", "Loss"}, risk \in {0, 1}, e \in {"Calm", "Impulsive"}, p \in {1, 3}}

\* collections around the sizes the rules of generateInsights count to: wins
\* followed by losses, one trade a day, of a size about ConcernTrades, and
\* every run of wins and losses of a size about RecentTrades, a trade a day,
\* the days ascending or descending
LongCollections ==
    {[i \in 1..n |-> FormTrade(i, IF i <= w THEN "Win" ELSE "Loss", "London", "Breakout")] :
        n \in (ConcernTrades - 1)..(ConcernTrades + 1), w \in 0..(ConcernTrades + 1)}
    \cup
    UNION {{[i \in 1..n |-> FormTrade(IF up THEN i ELSE n + 1 - i, results[i],
                                      "London", "Breakout")] :
               results \in [1..n -> {"Win", "Loss"}], up \in BOOLEAN} :
           n \in RecentTrades..(RecentTrades + 1)}

\* result and emotion vary freely over the four emotions the comparison reads
EmotionTrades ==
    {[FormTrade(1, res, "London", "Breakout") EXCEPT !.emotion = e] :
        res \in Results, e \in {"Calm", "Disciplined", "Impulsive", "Greed"}}

\* result, session and setup tag vary: two listed sessions and one outside the
\* list, a listed tag and the empty text
CalloutTrades ==
    {FormTrade(1, res, session, tag) :
        res \in {"Win", "Loss"}, session \in {"London", "NY", "Sydney"},
        tag \in {"Breakout", ""}}

----------------------------------------------------------------------------
(* AppProvider.  db is the IndexedDB database: the stores accounts and     *)
(* trades, keyed by id, and the settings record.  ui is the React state of *)
(* the provider.  ops are the calls of the provider's operations, each     *)
(* with the state of the render it was made from (its closure) and the     *)
(* step it has come to; a call runs from one await to the next in one      *)
(* step.  drawn are the ids crypto.randomUUID has given out.               *)
(* A value that may be null is an empty sequence or a sequence of one.     *)
(* updateAccount, the theme and the daily notes are left out.              *)

AccountIds == {1, 2}
TradeIds == {1, 2}

\* the account the dialog builds: the current balance starts as the starting
\* balance
NewAccount(id) == [id |-> id, startingBalance |-> 10, currentBalance |-> 10]

\* the trade the entry form builds for an account
StoredTrade(id, accountId, result) ==
    FormTrade(1, result, "London", "Breakout") @@ [id |-> id, accountId |-> accountId]

\* store.getAll(): the records in the order of their keys
RECURSIVE getAllItems(_)
getAllItems(store) ==
    IF DOMAIN store = {} THEN <<>>
    ELSE LET last == CHOOSE k \in DOMAIN store : \A j \in DOMAIN store : j <= k
         IN Append(getAllItems([k \in DOMAIN store \ {last} |-> store[k]]), store[last])

\* store.put(item); store.add(item) is the same for a key not in the store
updateItem(store, item) ==
    [k \in DOMAIN store \cup {item.id} |-> IF k = item.id THEN item ELSE store[k]]

\* store.delete(id)
deleteItem(store, id) == [k \in DOMAIN store \ {id} |-> store[k]]

\* the state after the provider's init effect on an empty database
EmptyStore == [k \in {} |-> <<>>]

AppStart ==
    /\ db = [accounts |-> EmptyStore, trades |-> EmptyStore,
             settings |-> [selectedAccountId |-> <<>>]]
    /\ ui = [accounts |-> <<>>, trades |-> <<>>, selectedAccount |-> <<>>,
             settings |-> [selectedAccountId |-> <<>>]]
    /\ ops = <<>>
    /\ drawn = [accounts |-> {}, trades |-> {}]

----------------------------------------------------------------------------
(* Initial states: a collection drawn from a pool, the provider at its start *)

SeqsUpTo(pool, n) == UNION {[1..k -> pool] : k \in 0..n}

NoCall == [fn |-> "none", result |-> <<>>]

InitWith(pool, balances) ==
    /\ trades \in SeqsUpTo(pool, MaxTrades)
    /\ startingBalance \in balances
    /\ out = NoCall
    /\ AppStart

Init == InitWith(WalkTrades, {10})

InitAmounts == InitWith(AmountTrades, {10})

InitEquity == InitWith(EquityTrades, Balances)

InitInsights == InitWith(InsightTrades, {10})

InitMonths == InitWith(MonthTrades, {10})

InitSetups == InitWith(SetupTrades, {10})

InitRatios == InitWith(RatioTrades, {10})

InitLong ==
    /\ trades \in LongCollections
    /\ startingBalance = 10
    /\ out = NoCall
    /\ AppStart

InitEmotions == InitWith(EmotionTrades, {10})

InitCallouts == InitWith(CalloutTrades, {10})

InitSessions == InitWith(SessionTrades, {10})

InitOrder == InitWith(OrderTrades, {10})

----------------------------------------------------------------------------
(* One action per analytics function, applied to the collection as drawn:  *)
(* the call returns its result; the collection afterwards is what the      *)
(* function's sorts leave of the array it was given.  The functions keep   *)
(* nothing between calls, so each is applied once per collection.          *)

\* mutant: the array passed in is sorted itself
SortInPlace(ts, sorted) == [argument |-> sorted, sorted |-> sorted]

\* [...trades].sort(compare): the copy is put in order, the array passed in
\* keeps its order
SpreadSort(ts, sorted) == [argument |-> ts, sorted |-> sorted]

\* the array passed to calculateStats, once it has returned
TradesAfterCalculateStats(ts) ==
    IF Len(ts) = 0 THEN ts ELSE SpreadSort(ts, SortByDate(ts)).argument

\* the array passed to calculateEquityCurve, once it has returned
TradesAfterCalculateEquityCurve(ts) == SpreadSort(ts, SortByDate(ts)).argument

\* the array passed to generateInsights, once it has returned: only the
\* consecutive-loss rule sorts
TradesAfterGenerateInsights(ts, stats) ==
    IF Len(ts) > 0 /\ stats.maxConsecutiveLosses >= 3
    THEN SpreadSort(ts, SortByDateDescending(ts)).argument
    ELSE ts

CallCalculateStats ==
    /\ out = NoCall
    /\ out' = [fn |-> "calculateStats", result |-> calculateStats(trades)]
    /\ trades' = TradesAfterCalculateStats(trades)
    /\ UNCHANGED startingBalance
    /\ UNCHANGED appVars

CallCalculateSessionStats ==
    /\ out = NoCall
    /\ out' = [fn |-> "calculateSessionStats", result |-> calculateSessionStats(trades)]
    /\ UNCHANGED <<trades, startingBalance>>
    /\ UNCHANGED appVars

CallCalculateSetupStats ==
    /\ out = NoCall
    /\ out' = [fn |-> "calculateSetupStats", result |-> calculateSetupStats(trades)]
    /\ UNCHANGED <<trades, startingBalance>>
    /\ UNCHANGED appVars

CallCalculateMonthlyPerformance ==
    /\ out = NoCall
    /\ out' = [fn |-> "calculateMonthlyPerformance",
               result |-> calculateMonthlyPerformance(trades)]
    /\ UNCHANGED <<trades, startingBalance>>
    /\ UNCHANGED appVars

CallCalculateEquityCurve ==
    /\ out = NoCall
    /\ out' = [fn |-> "calculateEquityCurve",
               result |-> calculateEquityCurve(trades, startingBalance)]
    /\ trades' = TradesAfterCalculateEquityCurve(trades)
    /\ UNCHANGED startingBalance
    /\ UNCHANGED appVars

CallGenerateInsights ==
    /\ out = NoCall
    /\ \E stats \in StatsArguments(trades) :
           /\ out' = [fn |-> "generateInsights", stats |-> stats,
                      result |-> generateInsights(trades, stats)]
           /\ trades' = TradesAfterGenerateInsights(trades, stats)
    /\ UNCHANGED startingBalance
    /\ UNCHANGED appVars

Next ==
    \/ CallCalculateStats
    \/ CallCalculateSessionStats
    \/ CallCalculateSetupStats
    \/ CallCalculateMonthlyPerformance
    \/ CallCalculateEquityCurve
    \/ CallGenerateInsights

Spec == Init /\ [][Next]_vars

SpecAmounts == InitAmounts /\ [][Next]_vars

SpecEquity == InitEquity /\ [][Next]_vars

SpecInsights == InitInsights /\ [][Next]_vars

SpecMonths == InitMonths /\ [][Next]_vars

SpecSetups == InitSetups /\ [][Next]_vars

SpecRatios == InitRatios /\ [][Next]_vars

SpecLong == InitLong /\ [][Next]_vars

SpecEmotions == InitEmotions /\ [][Next]_vars

SpecCallouts == InitCallouts /\ [][Next]_vars

SpecSessions == InitSessions /\ [][Next]_vars

SpecOrder == InitOrder /\ [][Next]_vars

----------------------------------------------------------------------------
(* The operations of AppProvider.  A call is made from the rendered state, *)
(* which it keeps as its closure; its first storage request is queued with *)
(* the call.  The operations are called one after the other has completed; *)
(* CallAddTradeInFlight is the one call made while another is in flight.   *)

\* the balance change handleAddTrade books for a trade
BookedChange(t) ==
    (IF t.result = "Win" THEN t.rewardAmount ELSE 0)
    - (IF t.result = "Loss" THEN t.riskAmount ELSE 0)

\* mutant: the account selected at the call stays selected, stored or not
refreshDataKeepingSelection(closure, database, state) ==
    [accounts |-> getAllItems(database.accounts),
     trades |-> getAllItems(database.trades),
     selectedAccount |-> IF closure.selectedAccount # <<>>
                         THEN closure.selectedAccount ELSE state.selectedAccount,
     settings |-> state.settings]

\* refreshData of the render `closure': the state it sets from the database
refreshData(closure, database, state) ==
    LET loadedAccounts == getAllItems(database.accounts)
        loadedTrades == getAllItems(database.trades)
        updated == IF closure.selectedAccount = <<>> THEN <<>>
                   ELSE Find(loadedAccounts, "id", closure.selectedAccount[1].id)
    IN [accounts |-> loadedAccounts,
        trades |-> loadedTrades,
        selectedAccount |-> IF updated # <<>> THEN updated ELSE state.selectedAccount,
        settings |-> state.settings]

\* a call made from the present render, about to take the step pc
NewOp(kind, arg, pc) == [kind |-> kind, arg |-> arg, closure |-> ui, pc |-> pc]

\* no call is in flight
Idle == \A i \in 1..Len(ops) : ops[i].pc = "done"

\* handleAddAccount up to its first await: addItem('accounts', account)
CallAddAccount ==
    /\ Idle
    /\ \E id \in AccountIds \ drawn.accounts :
           /\ db' = [db EXCEPT !.accounts = updateItem(@, NewAccount(id))]
           /\ drawn' = [drawn EXCEPT !.accounts = @ \cup {id}]
           /\ ops' = <<NewOp("addAccount", NewAccount(id), "refreshData")>>
    /\ UNCHANGED <<ui, analyticsVars>>

\* selectAccount, called for an account of the rendered list, up to its await
CallSelectAccount ==
    /\ Idle
    /\ \E k \in 1..Len(ui.accounts) :
           LET account == ui.accounts[k]
           IN /\ ui' = [ui EXCEPT !.selectedAccount = <<account>>]
              /\ db' = [db EXCEPT !.settings =
                            [ui.settings EXCEPT !.selectedAccountId = <<account.id>>]]
              /\ ops' = <<NewOp("selectAccount", account, "setSettings")>>
    /\ UNCHANGED <<drawn, analyticsVars>>

\* handleDeleteAccount up to its first await: deleteItem('accounts', id)
CallDeleteAccount ==
    /\ Idle
    /\ \E k \in 1..Len(ui.accounts) :
           /\ db' = [db EXCEPT !.accounts = deleteItem(@, ui.accounts[k].id)]
           /\ ops' = <<NewOp("deleteAccount", [id |-> ui.accounts[k].id],
                             "clearSelection")>>
    /\ UNCHANGED <<ui, drawn, analyticsVars>>

\* handleAddTrade up to its first await, for a trade the form built for an
\* account of the rendered list: addItem('trades', trade)
AddTradeAfter(earlier) ==
    /\ \E id \in TradeIds \ drawn.trades, k \in 1..Len(ui.accounts), result \in Results :
           LET trade == StoredTrade(id, ui.accounts[k].id, result)
           IN /\ db' = [db EXCEPT !.trades = updateItem(@, trade)]
              /\ drawn' = [drawn EXCEPT !.trades = @ \cup {id}]
              /\ ops' = Append(earlier, NewOp("addTrade", trade, "updateAccount"))
    /\ UNCHANGED <<ui, analyticsVars>>

CallAddTrade == Idle /\ AddTradeAfter(<<>>)

\* handleAddTrade called while an earlier call of it has not completed
CallAddTradeInFlight ==
    /\ Len(ops) = 1
    /\ ops[1].kind = "addTrade"
    /\ ops[1].pc # "done"
    /\ AddTradeAfter(ops)

\* handleUpdateTrade, for a rendered trade edited to another result, up to its
\* first await: updateItem('trades', trade)
CallUpdateTrade ==
    /\ Idle
    /\ \E k \in 1..Len(ui.trades), result \in Results :
           LET trade == StoredTrade(ui.trades[k].id, ui.trades[k].accountId, result)
           IN /\ result # ui.trades[k].result
              /\ db' = [db EXCEPT !.trades = updateItem(@, trade)]
              /\ ops' = <<NewOp("updateTrade", trade, "refreshData")>>
    /\ UNCHANGED <<ui, drawn, analyticsVars>>

\* handleDeleteTrade up to its first await: deleteItem('trades', id)
CallDeleteTrade ==
    /\ Idle
    /\ \E k \in 1..Len(ui.trades) :
           /\ db' = [db EXCEPT !.trades = deleteItem(@, ui.trades[k].id)]
           /\ ops' = <<NewOp("deleteTrade", [id |-> ui.trades[k].id], "refreshData")>>
    /\ UNCHANGED <<ui, drawn, analyticsVars>>

\* handleAddTrade from addItem to updateItem('accounts', updatedAccount): the
\* account is looked up in the accounts of the call's render
StepUpdateAccount(i) ==
    /\ ops[i].pc = "updateAccount"
    /\ LET trade == ops[i].arg
           account == Find(ops[i].closure.accounts, "id", trade.accountId)
       IN db' = IF account # <<>>
                THEN [db EXCEPT !.accounts =
                         updateItem(@, [account[1] EXCEPT
                                           !.currentBalance = @ + BookedChange(trade)])]
                ELSE db
    /\ ops' = [ops EXCEPT ![i].pc = "refreshData"]
    /\ UNCHANGED <<ui, drawn, analyticsVars>>

\* refreshData: the stores are read and the state is set
StepRefreshData(i) ==
    /\ ops[i].pc = "refreshData"
    /\ ui' = refreshData(ops[i].closure, db, ui)
    /\ ops' = [ops EXCEPT ![i].pc = IF ops[i].kind = "addAccount"
                                    THEN "selectAccount" ELSE "done"]
    /\ UNCHANGED <<db, drawn, analyticsVars>>

\* handleAddAccount after refreshData: if (accounts.length === 0)
\* selectAccount(account.id), both on the accounts of the call's render
StepSelectAccount(i) ==
    /\ ops[i].pc = "selectAccount"
    /\ LET account == Find(ops[i].closure.accounts, "id", ops[i].arg.id)
       IN IF Len(ops[i].closure.accounts) = 0 /\ account # <<>>
          THEN /\ ui' = [ui EXCEPT !.selectedAccount = account]
               /\ db' = [db EXCEPT !.settings =
                             [ops[i].closure.settings EXCEPT
                                 !.selectedAccountId = <<ops[i].arg.id>>]]
               /\ ops' = [ops EXCEPT ![i].pc = "setSettings"]
          ELSE /\ ops' = [ops EXCEPT ![i].pc = "done"]
               /\ UNCHANGED <<ui, db>>
    /\ UNCHANGED <<drawn, analyticsVars>>

\* handleDeleteAccount after deleteItem: if the account selected in the call's
\* render is the deleted one, the selection is cleared and the settings stored
StepClearSelection(i) ==
    /\ ops[i].pc = "clearSelection"
    /\ LET selected == ops[i].closure.selectedAccount
       IN IF selected # <<>> /\ selected[1].id = ops[i].arg.id
          THEN /\ ui' = [ui EXCEPT !.selectedAccount = <<>>]
               /\ db' = [db EXCEPT !.settings =
                             [ops[i].closure.settings EXCEPT !.selectedAccountId = <<>>]]
               /\ ops' = [ops EXCEPT ![i].pc = "setSettings"]
          ELSE /\ ops' = [ops EXCEPT ![i].pc = "refreshData"]
               /\ UNCHANGED <<ui, db>>
    /\ UNCHANGED <<drawn, analyticsVars>>

\* setSettings(updatedSettings) after the settings were stored
StepSetSettings(i) ==
    /\ ops[i].pc = "setSettings"
    /\ ui' = [ui EXCEPT !.settings =
                 [ops[i].closure.settings EXCEPT !.selectedAccountId =
                     IF ops[i].kind = "deleteAccount" THEN <<>> ELSE <<ops[i].arg.id>>]]
    /\ ops' = [ops EXCEPT ![i].pc = IF ops[i].kind = "deleteAccount"
                                    THEN "refreshData" ELSE "done"]
    /\ UNCHANGED <<db, drawn, analyticsVars>>

InitApp ==
    /\ trades = <<>>
    /\ startingBalance = 10
    /\ out = NoCall
    /\ AppStart

NextApp ==
    \/ CallAddAccount
    \/ CallSelectAccount
    \/ CallDeleteAccount
    \/ CallAddTrade
    \/ CallUpdateTrade
    \/ CallDeleteTrade
    \/ \E i \in 1..Len(ops) : StepUpdateAccount(i)
    \/ \E i \in 1..Len(ops) : StepRefreshData(i)
    \/ \E i \in 1..Len(ops) : StepSelectAccount(i)
    \/ \E i \in 1..Len(ops) : StepClearSelection(i)
    \/ \E i \in 1..Len(ops) : StepSetSettings(i)

NextAppInFlight ==
    \/ NextApp
    \/ CallAddTradeInFlight

SpecApp == InitApp /\ [][NextApp]_vars

SpecAppInFlight == InitApp /\ [][NextAppInFlight]_vars

----------------------------------------------------------------------------
(* The claims.  Each formula speaks of the call recorded in out and of the *)
(* inputs it was made on.                                                  *)

Called(fn) == out.fn = fn

\* s is ts in an ascending-date order: a rearrangement of ts with dates ascending
IsChronological(s, ts) ==
    /\ Len(s) = Len(ts)
    /\ \A i \in 1..Len(s) - 1 : s[i].date <= s[i + 1].date
    /\ \A t \in {ts[i] : i \in 1..Len(ts)} :
           Cardinality({i \in 1..Len(s) : s[i] = t})
               = Cardinality({i \in 1..Len(ts) : ts[i] = t})

\* C1: in the equity curve every point's balance is the previous point's balance
\* plus (rewardAmount if Win else 0) minus (riskAmount if Loss else 0), so a
\* breakeven trade leaves the balance unchanged and the last balance is the
\* starting balance plus the sum of these changes over all trades.
C1_BalanceFollowsResult ==
    Called("calculateEquityCurve") =>
        LET curve == out.result
            chrono == SortByDate(trades)
        IN /\ \A i \in 1..Len(chrono) :
                  curve[i + 1].balance = curve[i].balance + BookedChange(chrono[i])
           /\ curve[Len(curve)].balance
                  = startingBalance
                    + SumSeq([i \in 1..Len(trades) |-> BookedChange(trades[i])])

\* C10: the curve has one point more than there are trades; the first point is
\* the synthetic "Start" point with equity 0 and the starting balance; the other
\* points are the trades in ascending date order; equity is always balance minus
\* starting balance.
C10_CurveShape ==
    Called("calculateEquityCurve") =>
        LET curve == out.result
        IN /\ Len(curve) = Len(trades) + 1
           /\ curve[1] = [date |-> "Start", equity |-> 0, balance |-> startingBalance]
           /\ \A i \in 1..Len(curve) : curve[i].equity = curve[i].balance - startingBalance
           /\ \E order \in Permutations(1..Len(trades)) :
                  LET chrono == [i \in 1..Len(trades) |-> trades[order[i]]]
                  IN /\ IsChronological(chrono, trades)
                     /\ \A i \in 1..Len(chrono) :
                            curve[i + 1].date = toLocaleDateString(chrono[i].date)

\* C10 witness: a curve over three trades given out of date order
C10_Witness ==
    /\ Called("calculateEquityCurve")
    /\ startingBalance > 0
    /\ Len(trades) = 3
    /\ trades[1].date > trades[2].date
    /\ trades[3].result = "Loss"

----------------------------------------------------------------------------
(* Claims about calculateStats *)

CountOf(ts, result) == Cardinality({i \in 1..Len(ts) : ts[i].result = result})

RewardOfWins(ts) ==
    SumSeq([i \in 1..Len(ts) |-> IF ts[i].result = "Win" THEN ts[i].rewardAmount ELSE 0])

RiskOfLosses(ts) ==
    SumSeq([i \in 1..Len(ts) |-> IF ts[i].result = "Loss" THEN ts[i].riskAmount ELSE 0])

SumOfR(ts) == SumSeq([i \in 1..Len(ts) |-> ts[i].rMultiple])

MaxOf(S) == CHOOSE x \in S : \A y \in S : y <= x

\* q is the quotient a / b of integers, b > 0
IsQuotient(q, a, b) == q.d > 0 /\ q.n * b = a * q.d

\* C2 as stated: maxDrawdown is 0 for every collection of size 0 or 1.
C2_NoDrawdownUpToOneTrade ==
    (Called("calculateStats") /\ Len(trades) <= 1) => out.result.maxDrawdown = 0

\* C2 amended: maxDrawdown is 0 for the empty collection and for a single trade
\* whose r-multiple is not negative; for a single trade with a negative
\* r-multiple it is -rMultiple, the fall from the initial peak 0.
C2_DrawdownUpToOneTrade ==
    (Called("calculateStats") /\ Len(trades) <= 1) =>
        out.result.maxDrawdown
            = (IF Len(trades) = 1 /\ trades[1].rMultiple < 0
               THEN -trades[1].rMultiple ELSE 0)

\* C2 witness: statistics of a single losing trade
C2_Witness ==
    /\ Called("calculateStats")
    /\ Len(trades) = 1
    /\ trades[1].result = "Loss"
    /\ trades[1].rMultiple < 0

\* C3 as stated: profitFactor is 0 exactly when totalLoss and totalProfit are
\* both 0.
C3_ProfitFactorZeroIffBothZero ==
    Called("calculateStats") =>
        (out.result.profitFactor = Zero
            <=> (out.result.totalLoss = 0 /\ out.result.totalProfit = 0))

\* C3 amended: with amounts that are not negative, profitFactor is 0 exactly
\* when totalProfit is 0, whether totalLoss is 0 or positive.
C3_ProfitFactorZeroIffNoProfit ==
    Called("calculateStats") =>
        (out.result.profitFactor = Zero <=> RewardOfWins(trades) = 0)

\* C3 witness: a collection with losses and no profit
C3_Witness ==
    /\ Called("calculateStats")
    /\ out.result.totalLoss > 0
    /\ out.result.totalProfit = 0
    /\ CountOf(trades, "Win") > 0

\* C4: profitFactor is the infinity sentinel exactly when totalLoss is 0 and
\* totalProfit is positive; with totalLoss > 0 it is totalProfit / totalLoss;
\* totalProfit is the reward of the wins and totalLoss the absolute value of the
\* risk of the losses.
C4_ProfitFactor ==
    Called("calculateStats") =>
        LET r == out.result
        IN /\ r.totalProfit = RewardOfWins(trades)
           /\ r.totalLoss = Abs(RiskOfLosses(trades))
           /\ r.profitFactor = Infinity <=> (r.totalLoss = 0 /\ r.totalProfit > 0)
           /\ r.totalLoss > 0 => IsQuotient(r.profitFactor, r.totalProfit, r.totalLoss)

\* C4 witness: wins and losses of unequal amounts, and a breakeven trade
C4_Witness ==
    /\ Called("calculateStats")
    /\ out.result.totalLoss > 0
    /\ out.result.totalProfit > out.result.totalLoss
    /\ CountOf(trades, "BE") > 0

\* C6: wins, losses and breakeven trades add up to totalTrades; a breakeven
\* trade is in neither the wins nor the losses: it adds nothing to the win rate,
\* to totalProfit or to totalLoss.
C6_Partition ==
    Called("calculateStats") =>
        LET r == out.result
        IN /\ r.totalTrades
                  = CountOf(trades, "Win") + CountOf(trades, "Loss") + CountOf(trades, "BE")
           /\ IsQuotient(r.winRate, 100 * CountOf(trades, "Win"), Max(r.totalTrades, 1))
           /\ r.totalProfit = RewardOfWins(trades)
           /\ r.totalLoss = RiskOfLosses(trades)

\* C6 witness: a breakeven trade that carries a reward and a risk amount
C6_Witness ==
    /\ Called("calculateStats")
    /\ \E i \in 1..Len(trades) :
           /\ trades[i].result = "BE"
           /\ trades[i].rewardAmount > 0
           /\ trades[i].riskAmount > 0
    /\ CountOf(trades, "Win") > 0
    /\ CountOf(trades, "Loss") > 0

\* C7: for a collection that is not empty, winRate is wins / totalTrades x 100
\* and lies in [0, 100], and avgR and expectancy are both the sum of the
\* r-multiples divided by the trade count.
C7_WinRateAndAvgR ==
    (Called("calculateStats") /\ Len(trades) > 0) =>
        LET r == out.result
        IN /\ IsQuotient(r.winRate, 100 * CountOf(trades, "Win"), Len(trades))
           /\ 0 <= r.winRate.n /\ r.winRate.n <= 100 * r.winRate.d
           /\ r.avgR = r.expectancy
           /\ IsQuotient(r.avgR, SumOfR(trades), Len(trades))

\* C7 witness: a win, a loss and a breakeven trade whose r-multiples do not
\* cancel
C7_Witness ==
    /\ Called("calculateStats")
    /\ CountOf(trades, "Win") = 1
    /\ CountOf(trades, "BE") = 1
    /\ Len(trades) = 3
    /\ SumOfR(trades) < 0

\* C8: maxDrawdown is never negative, and it is the largest value, over the walk
\* in date order, of the running peak of the cumulative r-multiple sum (which
\* starts at 0) minus the current cumulative sum.
C8_MaxDrawdown ==
    Called("calculateStats") =>
        LET chrono == SortByDate(trades)
            Cumulative(k) == SumOfR(SubSeq(chrono, 1, k))
            Peak(k) == MaxOf({Cumulative(j) : j \in 0..k})
        IN /\ out.result.maxDrawdown >= 0
           /\ out.result.maxDrawdown
                  = MaxOf({Peak(k) - Cumulative(k) : k \in 0..Len(chrono)})

\* C8 witness: the largest drawdown is not the last one
C8_Witness ==
    /\ Called("calculateStats")
    /\ Len(trades) = 3
    /\ trades[1].date > trades[2].date
    /\ out.result.maxDrawdown = 1
    /\ SumOfR(trades) > 0

----------------------------------------------------------------------------
(* Claims about the order of the input *)

\* every order the records of ts can be passed in
Orderings(ts) == {[i \in 1..Len(ts) |-> ts[p[i]]] : p \in Permutations(1..Len(ts))}

DistinctDates(ts) == \A i, j \in 1..Len(ts) : i # j => ts[i].date # ts[j].date

\* one setup alone has the largest average r-multiple
SingleBestSetup(ts) ==
    LET ss == calculateSetupStats(ts)
    IN \E i \in 1..Len(ss) : \A j \in 1..Len(ss) : j # i => Less(ss[j].avgR, ss[i].avgR)

\* one setup alone has the smallest average r-multiple
SingleWorstSetup(ts) ==
    LET ss == calculateSetupStats(ts)
    IN \E i \in 1..Len(ss) : \A j \in 1..Len(ss) : j # i => Less(ss[i].avgR, ss[j].avgR)

\* C5 as stated: calculateStats returns equal records for any two orderings of
\* the same trade records, records that share a date included.
C5_OrderIrrelevant ==
    Called("calculateStats") =>
        \A other \in Orderings(trades) : calculateStats(other) = out.result

\* C5 amended: for any two orderings of the same records calculateStats returns
\* equal totalTrades, winRate, avgR, profitFactor, expectancy, totalProfit,
\* totalLoss, bestSession and worstSession; equal streak maxima and maxDrawdown
\* when no two records share a date; an equal bestSetup (worstSetup) when one
\* setup alone has the largest (smallest) average r-multiple.
C5_OrderIrrelevantUpToTies ==
    Called("calculateStats") =>
        \A other \in Orderings(trades) :
            LET a == calculateStats(other)
                r == out.result
            IN /\ a.totalTrades = r.totalTrades
               /\ a.winRate = r.winRate
               /\ a.avgR = r.avgR
               /\ a.profitFactor = r.profitFactor
               /\ a.expectancy = r.expectancy
               /\ a.totalProfit = r.totalProfit
               /\ a.totalLoss = r.totalLoss
               /\ a.bestSession = r.bestSession
               /\ a.worstSession = r.worstSession
               /\ DistinctDates(trades) =>
                      /\ a.maxConsecutiveWins = r.maxConsecutiveWins
                      /\ a.maxConsecutiveLosses = r.maxConsecutiveLosses
                      /\ a.maxDrawdown = r.maxDrawdown
               /\ SingleBestSetup(trades) => a.bestSetup = r.bestSetup
               /\ SingleWorstSetup(trades) => a.worstSetup = r.worstSetup

\* C5 witness: three records of distinct dates, passed out of date order, in two
\* sessions and setups of different average r-multiple
C5_Witness ==
    /\ Called("calculateStats")
    /\ Len(trades) = 3
    /\ DistinctDates(trades)
    /\ trades[1].date > trades[2].date
    /\ out.result.maxConsecutiveWins = 2
    /\ out.result.bestSetup # out.result.worstSetup
    /\ out.result.bestSession # out.result.worstSession

----------------------------------------------------------------------------
(* Claims about calculateSessionStats *)

SessionRank(name) ==
    CHOOSE i \in 1..5 : <<"Asian", "London", "NY", "Pre-NY", "Post-NY">>[i] = name

\* C9: the session breakdown has no entry with trades = 0, every key is one of
\* Asian, London, NY, Pre-NY, Post-NY, no key appears twice, and the entries
\* stand in that order whatever the order of the input trades.
C9_SessionEntries ==
    Called("calculateSessionStats") =>
        LET r == out.result
        IN /\ \A i \in 1..Len(r) :
                  /\ r[i].trades > 0
                  /\ r[i].session \in {"Asian", "London", "NY", "Pre-NY", "Post-NY"}
           /\ \A i, j \in 1..Len(r) :
                  i < j => SessionRank(r[i].session) < SessionRank(r[j].session)

\* C9 witness: trades passed against the enumeration order, one of them in a
\* session outside the enumeration
C9_Witness ==
    /\ Called("calculateSessionStats")
    /\ Len(trades) = 3
    /\ trades[1].session = "Post-NY"
    /\ trades[2].session = "Sydney"
    /\ trades[3].session = "Asian"
    /\ Len(out.result) = 2

----------------------------------------------------------------------------
(* Claims about the empty collection *)

\* C11: for an empty collection calculateStats returns the placeholder record:
\* every count, rate and amount is 0 and the four best/worst fields are "N/A".
C11_EmptyStats ==
    (Called("calculateStats") /\ trades = <<>>) =>
        LET r == out.result
        IN /\ r.totalTrades = 0 /\ r.maxConsecutiveWins = 0 /\ r.maxConsecutiveLosses = 0
           /\ r.maxDrawdown = 0 /\ r.totalProfit = 0 /\ r.totalLoss = 0
           /\ r.winRate = [n |-> 0, d |-> 1] /\ r.avgR = [n |-> 0, d |-> 1]
           /\ r.profitFactor = [n |-> 0, d |-> 1] /\ r.expectancy = [n |-> 0, d |-> 1]
           /\ r.bestSession = "N/A" /\ r.worstSession = "N/A"
           /\ r.bestSetup = "N/A" /\ r.worstSetup = "N/A"
           /\ DOMAIN r = {"totalTrades", "winRate", "avgR", "profitFactor", "expectancy",
                          "maxConsecutiveWins", "maxConsecutiveLosses", "maxDrawdown",
                          "totalProfit", "totalLoss", "bestSession", "worstSession",
                          "bestSetup", "worstSetup"}

\* C11 witness: statistics of the empty collection
C11_Witness == Called("calculateStats") /\ trades = <<>>

\* C12: for an empty collection generateInsights returns exactly one string, the
\* onboarding prompt, whatever statistics are passed with it.
C12_OnlyOnboarding ==
    (Called("generateInsights") /\ trades = <<>>) =>
        /\ Len(out.result) = 1
        /\ out.result[1] = [rule |-> "onboarding"]

\* C12 witness: the empty collection passed with statistics that meet the
\* thresholds of the win-rate, profit-factor and consecutive-loss rules
C12_Witness ==
    /\ Called("generateInsights")
    /\ trades = <<>>
    /\ out.stats.winRate = [n |-> 70, d |-> 1]
    /\ out.stats.profitFactor = [n |-> 1, d |-> 0]
    /\ out.stats.maxConsecutiveLosses >= 3
    /\ out.stats.bestSession # "N/A"

\* C14: no analytics function changes the array it is given: after every call
\* the collection holds the same trade records in the same order (the sorts
\* work on a copy; the statistics argument is only read).
C14_InputsUnchanged == [][trades' = trades]_vars

\* C14 witness: a function that sorts has returned for a collection that is
\* not in date order
C14_Witness ==
    /\ out.fn \in {"calculateStats", "calculateEquityCurve", "generateInsights"}
    /\ \E i, j \in 1..Len(trades) : i < j /\ trades[i].date > trades[j].date

\* the calendar month of a trade, as a count of months
MonthNumber(t) == (getFullYear(t.date) * 12) + getMonth(t.date)

\* the trades of the collection that fall in the month with number m
TradesOfMonth(m) ==
    LET InMonth(t) == MonthNumber(t) = m
    IN SelectSeq(trades, InMonth)

\* C15: calculateMonthlyPerformance returns one record per calendar month
\* that has a trade, months strictly ascending; a record counts the trades of
\* its month, sums their r-multiples and gives wins / trades x 100 as win
\* rate; the counts add up to the size of the collection.
C15_MonthlyRecords ==
    Called("calculateMonthlyPerformance") =>
        LET months == {MonthNumber(trades[i]) : i \in 1..Len(trades)}
            records == out.result
            \* the month of the i-th record: the i-th smallest month with a trade
            MonthAt(i) ==
                CHOOSE m \in months : Cardinality({k \in months : k < m}) = i - 1
        IN /\ Len(records) = Cardinality(months)
           /\ \A i \in 1..Len(records) :
                  LET ofMonth == TradesOfMonth(MonthAt(i))
                  IN /\ records[i].month = monthKey(ofMonth[1].date)
                     /\ records[i].trades = Len(ofMonth)
                     /\ records[i].profit = SumOfR(ofMonth)
                     /\ IsQuotient(records[i].winRate,
                                   CountOf(ofMonth, "Win") * 100, Len(ofMonth))
           /\ SumSeq([i \in 1..Len(records) |-> records[i].trades]) = Len(trades)

\* C15 witness: two trades of one month on different days, followed by a trade
\* of an earlier month
C15_Witness ==
    /\ Called("calculateMonthlyPerformance")
    /\ Len(out.result) = 2
    /\ Len(trades) = 3
    /\ MonthNumber(trades[1]) > MonthNumber(trades[3])
    /\ MonthNumber(trades[1]) = MonthNumber(trades[2])
    /\ trades[1].date # trades[2].date

----------------------------------------------------------------------------
(* Claims about calculateSetupStats *)

\* the place in the collection of the first trade that carries the tag
FirstWith(tag) ==
    CHOOSE i \in 1..Len(trades) :
        /\ trades[i].setupTag = tag
        /\ \A j \in 1..(i - 1) : trades[j].setupTag # tag

\* the trades of the collection that carry the tag
TradesWith(tag) ==
    LET WithTag(t) == t.setupTag = tag
    IN SelectSeq(trades, WithTag)

\* C16: the setup breakdown has exactly one entry per distinct setup tag of the
\* input, whatever text the tag is, in the order the tags first appear, none
\* with trades = 0; trades, winRate, avgR and totalR of an entry are those of
\* exactly the trades that carry its tag.
C16_SetupEntries ==
    Called("calculateSetupStats") =>
        LET r == out.result
            tags == {trades[i].setupTag : i \in 1..Len(trades)}
        IN /\ {r[i].setup : i \in 1..Len(r)} = tags
           /\ Len(r) = Cardinality(tags)
           /\ \A i, j \in 1..Len(r) :
                  i < j => FirstWith(r[i].setup) < FirstWith(r[j].setup)
           /\ \A i \in 1..Len(r) :
                  LET tagged == TradesWith(r[i].setup)
                  IN /\ r[i].trades > 0
                     /\ r[i].trades = Len(tagged)
                     /\ r[i].totalR = SumOfR(tagged)
                     /\ IsQuotient(r[i].winRate, CountOf(tagged, "Win") * 100, Len(tagged))
                     /\ IsQuotient(r[i].avgR, SumOfR(tagged), Len(tagged))

\* C16 witness: a tag outside the list comes first and again third, the empty
\* tag in between
C16_Witness ==
    /\ Called("calculateSetupStats")
    /\ Len(trades) = 3
    /\ trades[1].setupTag = "Own idea"
    /\ trades[2].setupTag = ""
    /\ trades[3].setupTag = "Own idea"
    /\ trades[1].result # trades[3].result
    /\ Len(out.result) = 2

----------------------------------------------------------------------------
(* Claims about the ratios *)

\* a ratio with a divisor above zero
IsFinite(q) == q.d > 0

\* a formatted number that is neither NaN nor infinite
IsFiniteText(text) == "units" \in DOMAIN text

\* C17: no analytics function divides by zero: every rate and average it
\* returns or prints is a ratio with a divisor above zero or the defined 0, and
\* the profit factor is infinite, the sentinel, only when the losses total 0
\* and the profits do not.
C17_NoDivisionByZero ==
    LET r == out.result
    IN /\ Called("calculateStats") =>
              /\ IsFinite(r.winRate) /\ IsFinite(r.avgR) /\ IsFinite(r.expectancy)
              /\ \/ IsFinite(r.profitFactor)
                 \/ /\ r.profitFactor = [n |-> 1, d |-> 0]
                    /\ RiskOfLosses(trades) = 0
                    /\ RewardOfWins(trades) > 0
              /\ (RiskOfLosses(trades) = 0 /\ RewardOfWins(trades) = 0)
                     => r.profitFactor = [n |-> 0, d |-> 1]
       /\ out.fn \in {"calculateSessionStats", "calculateSetupStats"} =>
              \A i \in 1..Len(r) : IsFinite(r[i].winRate) /\ IsFinite(r[i].avgR)
       /\ Called("calculateMonthlyPerformance") =>
              \A i \in 1..Len(r) : IsFinite(r[i].winRate)
       /\ Called("generateInsights") =>
              \A i \in 1..Len(r) :
                  /\ r[i].rule \in {"bestSession"} =>
                         IsFiniteText(r[i].winRate) /\ IsFiniteText(r[i].avgR)
                  /\ r[i].rule \in {"worstSession", "bestSetup"} =>
                         IsFiniteText(r[i].avgR)
                  /\ r[i].rule = "risk" => IsFiniteText(r[i].avgRisk)
                  /\ r[i].rule = "emotion" =>
                         IsFiniteText(r[i].calmAvgR) /\ IsFiniteText(r[i].impulsiveAvgR)

\* C17 witness: the statistics of a collection whose losses and profits both
\* total 0, so that the guarded branch of the profit factor is taken
C17_Witness ==
    /\ Called("calculateStats")
    /\ Len(trades) = 2
    /\ RiskOfLosses(trades) = 0
    /\ RewardOfWins(trades) = 0
    /\ out.result.profitFactor = [n |-> 0, d |-> 1]

----------------------------------------------------------------------------
(* Claims about the streaks *)

\* the trades of the collection by date ascending, trades of one date in the
\* order they have in the collection
ByDate ==
    LET n == Len(trades)
        p == CHOOSE q \in Permutations(1..n) :
                 \A i, j \in 1..n :
                     i < j => \/ trades[q[i]].date < trades[q[j]].date
                              \/ /\ trades[q[i]].date = trades[q[j]].date
                                 /\ q[i] < q[j]
    IN [i \in 1..n |-> trades[p[i]]]

\* the length of the longest run of neighbours in s that all have the result
LongestRun(s, result) ==
    MaxOf({0} \cup
          {run[2] - run[1] + 1 :
              run \in {r \in (1..Len(s)) \X (1..Len(s)) :
                          r[1] <= r[2] /\ \A k \in r[1]..r[2] : s[k].result = result}})

\* C18: maxConsecutiveWins is the length of the longest run of wins, and
\* maxConsecutiveLosses that of the longest run of losses, among the trades by
\* date ascending: a trade of any other result, breakeven too, ends a run.
\* Neither exceeds the number of wins, respectively losses.
C18_LongestRuns ==
    Called("calculateStats") =>
        /\ out.result.maxConsecutiveWins = LongestRun(ByDate, "Win")
        /\ out.result.maxConsecutiveLosses = LongestRun(ByDate, "Loss")
        /\ out.result.maxConsecutiveWins <= CountOf(trades, "Win")
        /\ out.result.maxConsecutiveLosses <= CountOf(trades, "Loss")

\* C18 witness: the collection brings two wins side by side, but by date a
\* breakeven trade, on the day of the first win, stands between them
C18_Witness ==
    /\ Called("calculateStats")
    /\ Len(trades) = 3
    /\ trades[1].result = "Win" /\ trades[2].result = "Win" /\ trades[3].result = "BE"
    /\ trades[1].date = trades[3].date /\ trades[3].date < trades[2].date
    /\ out.result.maxConsecutiveWins = 1

----------------------------------------------------------------------------
(* Claims about the best and worst session and setup *)

\* the place of the first entry whose avgR no entry exceeds
FirstMaximum(entries) ==
    CHOOSE i \in 1..Len(entries) :
        /\ \A j \in 1..Len(entries) : ~Less(entries[i].avgR, entries[j].avgR)
        /\ \A j \in 1..(i - 1) : Less(entries[j].avgR, entries[i].avgR)

\* the place of the first entry whose avgR no entry falls below
FirstMinimum(entries) ==
    CHOOSE i \in 1..Len(entries) :
        /\ \A j \in 1..Len(entries) : ~Less(entries[j].avgR, entries[i].avgR)
        /\ \A j \in 1..(i - 1) : Less(entries[i].avgR, entries[j].avgR)

\* C19: bestSession and worstSession are the keys of the first entry of the
\* session breakdown with the largest, respectively smallest, avgR, and
\* bestSetup and worstSetup those of the first such entry of the setup
\* breakdown: on equal avgR the earliest entry is taken.
C19_FirstExtremeEntry ==
    (Called("calculateStats") /\ trades # <<>>) =>
        LET sessionStats == calculateSessionStats(trades)
            setupStats == calculateSetupStats(trades)
        IN /\ sessionStats # <<>> =>
                  /\ out.result.bestSession =
                         sessionStats[FirstMaximum(sessionStats)].session
                  /\ out.result.worstSession =
                         sessionStats[FirstMinimum(sessionStats)].session
           /\ setupStats # <<>> =>
                  /\ out.result.bestSetup = setupStats[FirstMaximum(setupStats)].setup
                  /\ out.result.worstSetup = setupStats[FirstMinimum(setupStats)].setup

\* C20: for a collection that is not empty, bestSetup and worstSetup are "N/A"
\* only when the setup breakdown is empty and otherwise keys of its entries,
\* whatever text the setup tags are, the empty text too; likewise bestSession
\* and worstSession with the session breakdown.
C20_SentinelOnlyForEmptyBreakdown ==
    (Called("calculateStats") /\ trades # <<>>) =>
        LET sessionStats == calculateSessionStats(trades)
            setupStats == calculateSetupStats(trades)
            sessionKeys == {sessionStats[i].session : i \in 1..Len(sessionStats)}
            setupKeys == {setupStats[i].setup : i \in 1..Len(setupStats)}
        IN /\ IF sessionStats = <<>>
              THEN out.result.bestSession = "N/A" /\ out.result.worstSession = "N/A"
              ELSE out.result.bestSession \in sessionKeys
                   /\ out.result.worstSession \in sessionKeys
           /\ IF setupStats = <<>>
              THEN out.result.bestSetup = "N/A" /\ out.result.worstSetup = "N/A"
              ELSE out.result.bestSetup \in setupKeys
                   /\ out.result.worstSetup \in setupKeys

----------------------------------------------------------------------------
(* Claims about the rules of generateInsights *)

\* the rules named by the insights returned
RulesEmitted == {out.result[i].rule : i \in 1..Len(out.result)}

\* the place of a rule in the order of evaluation; the commendation and the
\* concern are the two branches of the win-rate rule
RuleRank(rule) ==
    CHOOSE k \in 1..8 :
        rule \in <<{"bestSession"}, {"worstSession"}, {"bestSetup"}, {"risk"},
                   {"consecutiveLosses"}, {"winRateGreat", "winRateLow"},
                   {"profitFactor"}, {"emotion"}>>[k]

\* C21: for a collection that is not empty the insights stand in the order of
\* the rules (best session, worst session, best setup, risk, consecutive
\* losses, win rate, profit factor, emotion), each rule giving at most one
\* insight, so there are at most 8 and there may be none.
C21_RuleOrder ==
    (Called("generateInsights") /\ trades # <<>>) =>
        /\ Len(out.result) <= 8
        /\ \A i \in 1..Len(out.result) :
               out.result[i].rule \in
                   {"bestSession", "worstSession", "bestSetup", "risk",
                    "consecutiveLosses", "winRateGreat", "winRateLow",
                    "profitFactor", "emotion"}
        /\ \A i, j \in 1..Len(out.result) :
               i < j => RuleRank(out.result[i].rule) < RuleRank(out.result[j].rule)

\* C21 witness: six of the rules give an insight for one collection, the
\* first and the last of them included
C21_Witness ==
    /\ Called("generateInsights")
    /\ trades # <<>>
    /\ Len(out.result) = 6
    /\ "emotion" \in RulesEmitted
    /\ "bestSession" \in RulesEmitted

\* C22: for a collection that is not empty the commendation for the win rate
\* is given exactly when stats.winRate >= 60, the concern exactly when
\* stats.winRate < 40 and there are at least 10 trades; never both, and
\* neither from 40 up to but not including 60.
C22_WinRateRule ==
    (Called("generateInsights") /\ trades # <<>> /\ out.stats.winRate.d > 0) =>
        LET rate == out.stats.winRate
            great == "winRateGreat" \in RulesEmitted
            low == "winRateLow" \in RulesEmitted
        IN /\ great <=> rate.n >= 60 * rate.d
           /\ low <=> (rate.n < 40 * rate.d /\ Len(trades) >= 10)
           /\ ~(great /\ low)
           /\ (rate.n >= 40 * rate.d /\ rate.n < 60 * rate.d) => ~great /\ ~low

\* C22 witness: the concern is given for ten trades with a win rate below 40
C22_Witness ==
    /\ Called("generateInsights")
    /\ Len(trades) = 10
    /\ CountOf(trades, "Win") = 3
    /\ out.stats.winRate = [n |-> 30, d |-> 1]
    /\ "winRateLow" \in RulesEmitted

\* the places in the collection of its (up to) five trades of the latest dates,
\* of trades of one date those that come first in the collection
LatestPlaces ==
    {i \in 1..Len(trades) :
        Cardinality({j \in 1..Len(trades) :
                        \/ trades[j].date > trades[i].date
                        \/ trades[j].date = trades[i].date /\ j < i}) < 5}

\* C23: for a collection that is not empty the warning about consecutive
\* losses is given exactly when stats.maxConsecutiveLosses >= 3 and at least 3
\* of the (up to) 5 trades of the latest dates are losses; one of the two
\* conditions alone does not give it.
C23_ConsecutiveLossRule ==
    (Called("generateInsights") /\ trades # <<>>) =>
        LET recentLosses ==
                Cardinality({i \in LatestPlaces : trades[i].result = "Loss"})
        IN "consecutiveLosses" \in RulesEmitted
               <=> (out.stats.maxConsecutiveLosses >= 3 /\ recentLosses >= 3)

\* C23 witness: of six trades the three latest are losses and the three before
\* them are not, and the warning is given
C23_Witness ==
    /\ Called("generateInsights")
    /\ Len(trades) = 6
    /\ \A i \in 1..3 : trades[i].result = "Loss" /\ trades[i].date > 3
    /\ \A i \in 4..6 : trades[i].result = "Win"
    /\ "consecutiveLosses" \in RulesEmitted

\* the trades of the collection with the first emotion if there are any, else
\* those with the second
FirstOrElse(first, second) ==
    LET WithFirst(t) == t.emotion = first
        WithSecond(t) == t.emotion = second
    IN IF SelectSeq(trades, WithFirst) # <<>>
       THEN SelectSeq(trades, WithFirst) ELSE SelectSeq(trades, WithSecond)

\* C24: the emotion comparison takes as calm bucket the Calm trades if there are
\* any, else the Disciplined ones, and as impulsive bucket the Impulsive trades
\* if there are any, else the Greed ones, never both of a pair; it is given
\* exactly when both buckets have trades and the average r-multiple of the calm
\* bucket exceeds that of the impulsive bucket by more than 0.5.
C24_EmotionRule ==
    Called("generateInsights") =>
        LET calm == FirstOrElse("Calm", "Disciplined")
            impulsive == FirstOrElse("Impulsive", "Greed")
        IN "emotion" \in RulesEmitted
               <=> /\ calm # <<>>
                   /\ impulsive # <<>>
                   \* SumOfR(calm) / Len(calm) > SumOfR(impulsive) / Len(impulsive) + 1/2
                   /\ 2 * SumOfR(calm) * Len(impulsive)
                          > (2 * SumOfR(impulsive) + Len(impulsive)) * Len(calm)

\* C24 witness: a winning Disciplined trade, a losing Calm trade and a losing
\* Greed trade: the Calm trade alone is the calm bucket, its average is not
\* above that of the Greed trade, and no comparison is given
C24_Witness ==
    /\ Called("generateInsights")
    /\ Len(trades) = 3
    /\ \E i, j, k \in 1..3 :
           /\ trades[i].emotion = "Disciplined" /\ trades[i].result = "Win"
           /\ trades[j].emotion = "Calm" /\ trades[j].result = "Loss"
           /\ trades[k].emotion = "Greed" /\ trades[k].result = "Loss"
    /\ "emotion" \notin RulesEmitted

\* the trades of the collection in the session
TradesIn(session) ==
    LET InSession(t) == t.session = session
    IN SelectSeq(trades, InSession)

\* C25: the callout for the best session, the warning about the worst session
\* and the callout for the best setup are given only when the field of stats
\* is not "N/A" and the bucket of that name, taken from the trades given, has
\* at least 3 trades, the warning only when moreover the average r-multiple of
\* the bucket is below 0; a name without a bucket in the trades gives nothing.
C25_Callouts ==
    Called("generateInsights") =>
        LET named == {"Asian", "London", "NY", "Pre-NY", "Post-NY"}
            best == TradesIn(out.stats.bestSession)
            worst == TradesIn(out.stats.worstSession)
            setup == TradesWith(out.stats.bestSetup)
        IN /\ "bestSession" \in RulesEmitted
                  <=> /\ out.stats.bestSession # "N/A"
                      /\ out.stats.bestSession \in named
                      /\ Len(best) >= 3
           /\ "worstSession" \in RulesEmitted
                  <=> /\ out.stats.worstSession # "N/A"
                      /\ out.stats.worstSession \in named
                      /\ Len(worst) >= 3
                      /\ SumOfR(worst) < 0
           /\ "bestSetup" \in RulesEmitted
                  <=> /\ out.stats.bestSetup # "N/A"
                      /\ Len(setup) >= 3

\* C25 witness: three London trades with the empty setup tag, passed with
\* statistics that name the NY session, which has no trade, as best, London
\* as worst and a setup no trade carries: no callout is given
C25_Witness ==
    /\ Called("generateInsights")
    /\ Len(trades) = 3
    /\ \A i \in 1..3 : trades[i].session = "London" /\ trades[i].setupTag = ""
    /\ out.stats.bestSession = "NY"
    /\ out.stats.bestSetup = "Reversal"
    /\ "bestSession" \notin RulesEmitted
    /\ "bestSetup" \notin RulesEmitted

----------------------------------------------------------------------------
(* Claims about the breakdowns as partitions *)

\* the entries count every trade once, their totalR add up to the sum of all
\* r-multiples, and each has avgR x trades = totalR and a winRate from 0 to 100
IsPartition(entries) ==
    /\ SumSeq([i \in 1..Len(entries) |-> entries[i].trades]) = Len(trades)
    /\ SumSeq([i \in 1..Len(entries) |-> entries[i].totalR]) = SumOfR(trades)
    /\ \A i \in 1..Len(entries) :
           /\ entries[i].avgR.d > 0
           /\ entries[i].avgR.n * entries[i].trades = entries[i].totalR * entries[i].avgR.d
           /\ entries[i].winRate.d > 0
           /\ entries[i].winRate.n >= 0
           /\ entries[i].winRate.n <= 100 * entries[i].winRate.d

\* C26: when every trade is in one of the five named sessions, the entries of
\* the session breakdown partition the collection: their trades add up to its
\* size and their totalR to the sum of its r-multiples; so do the entries of
\* the setup breakdown, for any tags; every entry has avgR x trades = totalR
\* and 0 <= winRate <= 100.
C26_Partition ==
    /\ (/\ Called("calculateSessionStats")
        /\ \A i \in 1..Len(trades) :
               trades[i].session \in {"Asian", "London", "NY", "Pre-NY", "Post-NY"})
           => IsPartition(out.result)
    /\ Called("calculateSetupStats") => IsPartition(out.result)

\* C26 witness: the session breakdown of trades in two sessions, two of them in
\* one session with different results
C26_Witness ==
    /\ Called("calculateSessionStats")
    /\ Len(trades) = 3
    /\ trades[1].session = "NY" /\ trades[2].session = "London"
    /\ trades[3].session = "NY"
    /\ trades[1].result # trades[3].result
    /\ Len(out.result) = 2

----------------------------------------------------------------------------
(* The claims about AppProvider.  A completed call stays in ops, with the  *)
(* render it was made from, until the next call is made.                   *)

\* the trades stored for an account, in the order of the store
StoredTradesOf(accountId) ==
    LET Own(t) == t.accountId = accountId
    IN SelectSeq(getAllItems(db.trades), Own)

\* C27: once the calls made have completed, the stored currentBalance of
\* every account equals the balance of the last point of the equity curve of
\* the trades stored for it, from its startingBalance, which is the
\* startingBalance plus the sum over those trades of rewardAmount for a Win,
\* -riskAmount for a Loss and 0 for a breakeven.
C27_BalanceIsCurveEnd ==
    Idle =>
        \A id \in DOMAIN db.accounts :
            LET account == db.accounts[id]
                stored == StoredTradesOf(id)
                curve == calculateEquityCurve(stored, account.startingBalance)
            IN /\ account.currentBalance = curve[Len(curve)].balance
               /\ account.currentBalance =
                      account.startingBalance
                      + SumSeq([i \in 1..Len(stored) |-> BookedChange(stored[i])])

\* C28: once addAccount, called while the account list was empty, has
\* completed, the selected account is the account added and the stored
\* settings name its id as selectedAccountId.
C28_FirstAccountSelected ==
    \A i \in 1..Len(ops) :
        (/\ ops[i].kind = "addAccount"
         /\ ops[i].pc = "done"
         /\ ops[i].closure.accounts = <<>>) =>
            /\ ui.selectedAccount = <<ops[i].arg>>
            /\ db.settings.selectedAccountId = <<ops[i].arg.id>>

\* C29: once two addTrade calls for the same account, the second made while
\* the first was in flight, have both completed, the stored currentBalance of
\* the account is its balance before the calls plus the balance changes of
\* both trades.
C29_NoLostUpdate ==
    (/\ Len(ops) = 2
     /\ \A i \in 1..2 : ops[i].kind = "addTrade" /\ ops[i].pc = "done"
     /\ ops[1].arg.accountId = ops[2].arg.accountId) =>
        LET id == ops[1].arg.accountId
            before == Find(ops[1].closure.accounts, "id", id)
        IN db.accounts[id].currentBalance =
               before[1].currentBalance + BookedChange(ops[1].arg)
               + BookedChange(ops[2].arg)

\* the trades with their accountId replaced by that of no account ever made
Unlinked(ts) == [i \in 1..Len(ts) |-> [ts[i] EXCEPT !.accountId = 0]]

\* C30: once deleteAccount has completed, the account is gone from the
\* accounts store, the other accounts and all the trades are stored as they
\* were when it was called, the trades of the deleted account included; the
\* analytics give for those trades what they give for the same trades under
\* any other accountId; and if the account was the selected one, no account
\* is selected and the stored settings have no selectedAccountId.
C30_DeleteAccountFrame ==
    \A i \in 1..Len(ops) :
        (ops[i].kind = "deleteAccount" /\ ops[i].pc = "done") =>
            LET id == ops[i].arg.id
                before == ops[i].closure
                Other(a) == a.id # id
                orphans == StoredTradesOf(id)
            IN /\ id \notin DOMAIN db.accounts
               /\ getAllItems(db.accounts) = SelectSeq(before.accounts, Other)
               /\ getAllItems(db.trades) = before.trades
               /\ calculateStats(orphans) = calculateStats(Unlinked(orphans))
               /\ calculateEquityCurve(orphans, startingBalance)
                      = calculateEquityCurve(Unlinked(orphans), startingBalance)
               /\ generateInsights(orphans, calculateStats(orphans))
                      = generateInsights(Unlinked(orphans), calculateStats(orphans))
               /\ (before.selectedAccount # <<>> /\ before.selectedAccount[1].id = id) =>
                      /\ ui.selectedAccount = <<>>
                      /\ db.settings.selectedAccountId = <<>>

\* deleteAccount has completed for the account that was selected, which has
\* a trade stored
C30_Witness ==
    \E i \in 1..Len(ops) :
        /\ ops[i].kind = "deleteAccount"
        /\ ops[i].pc = "done"
        /\ ops[i].closure.selectedAccount # <<>>
        /\ ops[i].closure.selectedAccount[1].id = ops[i].arg.id
        /\ StoredTradesOf(ops[i].arg.id) # <<>>


====
